---- MODULE Spec2Model ----
(***************************************************************************)
(* Model of wsoule/last-personal: the WebSocket broadcast hub              *)
(* (websocket.go), the counter write path (counter.go) and the per-address *)
(* admission limiter (middleware.go).                                      *)
(*                                                                         *)
(* Goroutines are processes with a program counter.  The hub's three       *)
(* channels are unbuffered (make(chan T)), so a send and its receive are   *)
(* one rendezvous step: the sender waits at its send position until the    *)
(* hub loop is at its select.                                              *)
(*                                                                         *)
(* conn.WriteJSON is not atomic: it has a begin and an end step.  gorilla  *)
(* connections support one concurrent writer; two writes in progress on    *)
(* the same connection are a data race, and a raced write's outcome is any *)
(* of: returns nil, returns an error, panics.  recv[c] logs the messages   *)
(* whose WriteJSON returned nil, in the order the calls returned.          *)
(***************************************************************************)
EXTENDS Integers, Sequences, FiniteSets, TLC

\* ---------------------------------------------------------------- bounds

\* Connections the server accepts, and goroutines serving /increment and
\* /decrement requests, in the order in which they are first used (the
\* identities are interchangeable).
ConnOrder == <<"c1", "c2">>
WriterOrder == <<"w1", "w2">>
Conns == {ConnOrder[i] : i \in DOMAIN ConnOrder}
Writers == {WriterOrder[i] : i \in DOMAIN WriterOrder}
\* Connections accepted plus /increment and /decrement requests served in a
\* behaviour.
MaxLoad == 3

\* ----------------------------------------------------------------- state

VARIABLES
    \* Hub (websocket.go:20-26) and the position of Hub.Run
    clients,      \* Hub.clients: the Registry (keys of the map)
    hubPc,        \* "select" | "range" | "write"
    update,       \* Run's local: the CounterUpdate being fanned out
    todo,         \* connections the range loop has still to produce
    hubConn,      \* Run's local conn inside the range loop
    alive,        \* FALSE once a panic in the hub goroutine ended the process
    \* Connections
    pc,           \* position of wsHandler for each connection
    snap,         \* wsHandler's webhookCounter / totalClicksCounter locals
    closeCount,   \* number of conn.Close() calls made on each connection
    peer,         \* "up" | "gone" | "stalled": the remote end
    inWrite,      \* who is inside conn.WriteJSON: subset of {"hub","ws"}
    raced,        \* writes in progress that overlapped another write
    recv,         \* per connection: messages whose write returned nil
    \* Counter store (MongoDB "counters" collection) and the write path
    count,        \* document "webhook"
    totalClicks,  \* document "totalClicks"
    wpc,          \* position of each increment/decrement handler
    wupd,         \* handler locals: webhookCounter.Count, totalClicksCounter.Count
    bg,           \* un-awaited totalClicks goroutines not yet run
    reqs,         \* requests served so far
    failed,       \* requests answered with http.Error 500
    \* History (not program state)
    seq,          \* number of broadcasts the hub loop has accepted
    regCount,     \* per connection: times h.clients[conn] = true ran
    removed,      \* connections deleted from the Registry so far
    byBroadcast,  \* connections deleted by a failed broadcast write
    passStart,    \* Registry when the current/last pass began
    passOk,       \* connections whose write returned nil in that pass
    passFail,     \* connections whose write returned an error in that pass
    \* Admission limiter (README.md:189-260, middleware.go)
    limiters,     \* the map: [tracked |-> bucket of address "a" (0: no entry),
                  \*           others |-> number of entries of other addresses]
    mu,           \* the package mutex: "none" or the request holding it
    bucket,       \* the rate.Limiter objects made for address "a", by number
    nextGen,      \* number of the next rate.Limiter made for address "a"
    rpc,          \* position of each request in rateLimitMiddleware
    rip,          \* its ip: "a", or "new" (an address never seen before)
    rlim,         \* its limiter local: a bucket number (0: not tracked here)
    now,          \* the clock, in seconds
    ticks,        \* clock advances so far
    quota,        \* requests still to come: [a |-> n, new |-> n]
    \* History (not program state)
    log,          \* decisions taken for address "a", in order
    calls,        \* getLimiter calls completed for never-seen addresses
    \* getIPAddress (README.md:194-218)
    request,      \* the request's X-Forwarded-For, X-Real-IP and RemoteAddr
    ident,        \* getIPAddress's result, once it has returned
    \* History of the write path (not program state)
    applied,      \* deltas applied to document "webhook", in order
    submitted     \* counts of the Updates the hub accepted, in order

hubVars == <<clients, hubPc, update, todo, hubConn, alive>>
connVars == <<pc, snap, closeCount, peer, inWrite, raced, recv>>
storeVars == <<count, totalClicks, wpc, wupd, bg, reqs, failed>>
histVars == <<seq, regCount, removed, byBroadcast, passStart, passOk, passFail>>
limVars == <<limiters, mu, bucket, nextGen, rpc, rip, rlim, now, ticks, quota,
             log, calls>>
idVars == <<request, ident>>
auditVars == <<applied, submitted>>
vars == <<hubVars, connVars, storeVars, histVars, limVars, idVars, auditVars>>

\* CounterUpdate (websocket.go:29-32); kind and seq tell the snapshot from
\* the k-th broadcast the hub accepted.
NoUpdate == [kind |-> "none", seq |-> 0, count |-> 0, totalClicks |-> 0]

CounterUpdate(kind, n, c, t) ==
    [kind |-> kind, seq |-> n, count |-> c, totalClicks |-> t]

\* The zero value of a handler's Counter locals.
NoLocals == [count |-> 0, totalClicks |-> 0]

Closed(c) == closeCount[c] > 0

\* Connections and requests the server has taken so far.
Load == Cardinality({c \in Conns : pc[c] # "upgrade"}) + reqs

\* The next unused connection, and the first idle handler goroutine.
NextConn(c) ==
    \E i \in DOMAIN ConnOrder :
        /\ ConnOrder[i] = c
        /\ pc[c] = "upgrade"
        /\ \A j \in 1..(i - 1) : pc[ConnOrder[j]] # "upgrade"

FirstIdle(w) ==
    \E i \in DOMAIN WriterOrder :
        /\ WriterOrder[i] = w
        /\ wpc[w] = "idle"
        /\ \A j \in 1..(i - 1) : wpc[WriterOrder[j]] # "idle"

\* NewHub (websocket.go:35-42), initializeCounters, and no request yet.
InitHub ==
    /\ clients = {}
    /\ hubPc = "select"
    /\ update = NoUpdate
    /\ todo = {}
    /\ hubConn = "none"
    /\ alive = TRUE
    /\ pc = [c \in Conns |-> "upgrade"]
    /\ snap = [c \in Conns |-> NoLocals]
    /\ closeCount = [c \in Conns |-> 0]
    /\ peer = [c \in Conns |-> "up"]
    /\ inWrite = [c \in Conns |-> {}]
    /\ raced = [c \in Conns |-> {}]
    /\ recv = [c \in Conns |-> <<>>]
    /\ count = 0
    /\ totalClicks = 0
    /\ wpc = [w \in Writers |-> "idle"]
    /\ wupd = [w \in Writers |-> NoLocals]
    /\ bg = 0
    /\ reqs = 0
    /\ failed = 0
    /\ seq = 0
    /\ regCount = [c \in Conns |-> 0]
    /\ removed = {}
    /\ byBroadcast = {}
    /\ passStart = {}
    /\ passOk = {}
    /\ passFail = {}
    /\ applied = <<>>
    /\ submitted = <<>>

\* ------------------------------------------------------- conn.WriteJSON

\* A write begins: `who` enters WriteJSON on c.  If another write is in
\* progress on c, both are raced.
BeginWrite(c, who) ==
    /\ inWrite' = [inWrite EXCEPT ![c] = @ \cup {who}]
    /\ raced' = [raced EXCEPT ![c] =
                    IF inWrite[c] # {} THEN @ \cup inWrite[c] \cup {who} ELSE @]

EndWrite(c, who) ==
    /\ inWrite' = [inWrite EXCEPT ![c] = @ \ {who}]
    /\ raced' = [raced EXCEPT ![c] = @ \ {who}]

\* A write on c can return: a write to a peer that stopped reading blocks
\* (no write deadline is set) unless the connection has been closed locally.
CanReturn(c) == peer[c] # "stalled" \/ Closed(c)

\* What WriteJSON can do when it returns.
WriteOutcomes(c, who) ==
    IF who \in raced[c] THEN {"ok", "err", "panic"}
    ELSE IF Closed(c) THEN {"err"}
    ELSE IF peer[c] = "gone" THEN {"ok", "err"}
    ELSE {"ok"}

Deliver(c, m) == recv' = [recv EXCEPT ![c] = Append(@, m)]

\* ------------------------------------------------------------- Hub.Run

\* case conn := <-h.register (websocket.go:48-52), with the send at
\* websocket.go:87.
HubRegister(c) ==
    /\ alive /\ hubPc = "select"
    /\ pc[c] = "register"
    /\ clients' = clients \cup {c}
    /\ regCount' = [regCount EXCEPT ![c] = @ + 1]
    /\ pc' = [pc EXCEPT ![c] = "find_webhook"]
    /\ UNCHANGED <<hubPc, update, todo, hubConn, alive>>
    /\ UNCHANGED <<snap, closeCount, peer, inWrite, raced, recv>>
    /\ UNCHANGED storeVars
    /\ UNCHANGED <<seq, removed, byBroadcast, passStart, passOk, passFail>>
    /\ UNCHANGED <<limVars, idVars, auditVars>>

\* Mutant of HubUnregister: the deferred cleanup hands the connection to the
\* register case, which inserts it again.
HubUnregisterInserts(c) ==
    /\ alive /\ hubPc = "select"
    /\ pc[c] = "unregister"
    /\ clients' = clients \cup {c}
    /\ regCount' = [regCount EXCEPT ![c] = @ + 1]
    /\ pc' = [pc EXCEPT ![c] = "done"]
    /\ UNCHANGED <<hubPc, update, todo, hubConn, alive>>
    /\ UNCHANGED <<snap, closeCount, peer, inWrite, raced, recv>>
    /\ UNCHANGED storeVars
    /\ UNCHANGED <<seq, removed, byBroadcast, passStart, passOk, passFail>>
    /\ UNCHANGED <<limVars, idVars, auditVars>>

\* Mutant of HubUnregister: the presence test is missing, so the connection
\* is closed whether or not it is still in the map.
HubUnregisterNoTest(c) ==
    /\ alive /\ hubPc = "select"
    /\ pc[c] = "unregister"
    /\ clients' = clients \ {c}
    /\ closeCount' = [closeCount EXCEPT ![c] = @ + 1]
    /\ removed' = removed \cup {c}
    /\ pc' = [pc EXCEPT ![c] = "done"]
    /\ UNCHANGED <<hubPc, update, todo, hubConn, alive>>
    /\ UNCHANGED <<snap, peer, inWrite, raced, recv>>
    /\ UNCHANGED storeVars
    /\ UNCHANGED <<seq, regCount, byBroadcast, passStart, passOk, passFail>>
    /\ UNCHANGED <<limVars, idVars, auditVars>>

\* case conn := <-h.unregister (websocket.go:54-61), with the deferred send
\* at websocket.go:105-107.
HubUnregister(c) ==
    /\ alive /\ hubPc = "select"
    /\ pc[c] = "unregister"
    /\ IF c \in clients
       THEN /\ clients' = clients \ {c}
            /\ closeCount' = [closeCount EXCEPT ![c] = @ + 1]
            /\ removed' = removed \cup {c}
       ELSE UNCHANGED <<clients, closeCount, removed>>
    /\ pc' = [pc EXCEPT ![c] = "done"]
    /\ UNCHANGED <<hubPc, update, todo, hubConn, alive>>
    /\ UNCHANGED <<snap, peer, inWrite, raced, recv>>
    /\ UNCHANGED storeVars
    /\ UNCHANGED <<seq, regCount, byBroadcast, passStart, passOk, passFail>>
    /\ UNCHANGED <<limVars, idVars, auditVars>>

\* case update := <-h.broadcast (websocket.go:63-65): the receive, and the
\* start of `for conn := range h.clients`.  The matching send is
\* hub.broadcast <- update in the handler (part_000:104, :157).
HubBroadcast(w) ==
    /\ alive /\ hubPc = "select"
    /\ wpc[w] = "send"
    /\ update' = CounterUpdate("broadcast", seq + 1, wupd[w].count, wupd[w].totalClicks)
    /\ seq' = seq + 1
    /\ todo' = clients
    /\ hubPc' = "range"
    /\ wpc' = [wpc EXCEPT ![w] = "idle"]
    /\ wupd' = [wupd EXCEPT ![w] = NoLocals]
    /\ passStart' = clients
    /\ passOk' = {}
    /\ passFail' = {}
    /\ UNCHANGED <<clients, hubConn, alive>>
    /\ UNCHANGED connVars
    /\ UNCHANGED <<count, totalClicks, bg, reqs, failed>>
    /\ UNCHANGED <<regCount, removed, byBroadcast>>
    /\ submitted' = Append(submitted, wupd[w].count)
    /\ UNCHANGED applied
    /\ UNCHANGED <<limVars, idVars>>

\* The range loop produces the next connection and calls
\* conn.WriteJSON(update) (websocket.go:65-66).
HubWriteBegin(c) ==
    /\ alive /\ hubPc = "range"
    /\ c \in todo
    /\ hubConn' = c
    /\ hubPc' = "write"
    /\ BeginWrite(c, "hub")
    /\ UNCHANGED <<clients, update, todo, alive>>
    /\ UNCHANGED <<pc, snap, closeCount, peer, recv>>
    /\ UNCHANGED storeVars
    /\ UNCHANGED histVars
    /\ UNCHANGED <<limVars, idVars, auditVars>>

\* Mutant of RangeRest: the loop does not advance past the connection it
\* has just written to.
RangeRestStuck(c) == todo

\* The connections the range loop still has to produce once the write to c
\* has returned.  A Go map range never produces an entry twice, and an entry
\* deleted before it is reached is not produced.
RangeRest(c) == todo \ {c}

\* conn.WriteJSON(update) returned nil (websocket.go:66-67).
HubWriteOk ==
    /\ alive /\ hubPc = "write"
    /\ CanReturn(hubConn)
    /\ "ok" \in WriteOutcomes(hubConn, "hub")
    /\ EndWrite(hubConn, "hub")
    /\ Deliver(hubConn, update)
    /\ passOk' = passOk \cup {hubConn}
    /\ todo' = RangeRest(hubConn)
    /\ hubPc' = "range"
    /\ UNCHANGED <<clients, update, hubConn, alive>>
    /\ UNCHANGED <<pc, snap, closeCount, peer>>
    /\ UNCHANGED storeVars
    /\ UNCHANGED <<seq, regCount, removed, byBroadcast, passStart, passFail>>
    /\ UNCHANGED <<limVars, idVars, auditVars>>

\* Mutant of HubWriteErr: the error branch leaves the range loop.
HubWriteErrBreaks ==
    /\ alive /\ hubPc = "write"
    /\ CanReturn(hubConn)
    /\ "err" \in WriteOutcomes(hubConn, "hub")
    /\ EndWrite(hubConn, "hub")
    /\ closeCount' = [closeCount EXCEPT ![hubConn] = @ + 1]
    /\ clients' = clients \ {hubConn}
    /\ removed' = removed \cup {hubConn}
    /\ byBroadcast' = byBroadcast \cup {hubConn}
    /\ passFail' = passFail \cup {hubConn}
    /\ todo' = {}
    /\ hubPc' = "range"
    /\ UNCHANGED <<update, hubConn, alive>>
    /\ UNCHANGED <<pc, snap, peer, recv>>
    /\ UNCHANGED storeVars
    /\ UNCHANGED <<seq, regCount, passStart, passOk>>
    /\ UNCHANGED <<limVars, idVars, auditVars>>

\* conn.WriteJSON(update) returned an error: log, conn.Close(),
\* delete(h.clients, conn), and the loop goes on (websocket.go:67-71).
HubWriteErr ==
    /\ alive /\ hubPc = "write"
    /\ CanReturn(hubConn)
    /\ "err" \in WriteOutcomes(hubConn, "hub")
    /\ EndWrite(hubConn, "hub")
    /\ closeCount' = [closeCount EXCEPT ![hubConn] = @ + 1]
    /\ clients' = clients \ {hubConn}
    /\ removed' = removed \cup {hubConn}
    /\ byBroadcast' = byBroadcast \cup {hubConn}
    /\ passFail' = passFail \cup {hubConn}
    /\ todo' = RangeRest(hubConn)
    /\ hubPc' = "range"
    /\ UNCHANGED <<update, hubConn, alive>>
    /\ UNCHANGED <<pc, snap, peer, recv>>
    /\ UNCHANGED storeVars
    /\ UNCHANGED <<seq, regCount, passStart, passOk>>
    /\ UNCHANGED <<limVars, idVars, auditVars>>

\* The raced write panicked in the hub goroutine: nothing recovers it, the
\* process ends.
HubWritePanic ==
    /\ alive /\ hubPc = "write"
    /\ CanReturn(hubConn)
    /\ "panic" \in WriteOutcomes(hubConn, "hub")
    /\ alive' = FALSE
    /\ UNCHANGED <<clients, hubPc, update, todo, hubConn>>
    /\ UNCHANGED connVars
    /\ UNCHANGED storeVars
    /\ UNCHANGED histVars
    /\ UNCHANGED <<limVars, idVars, auditVars>>

\* The range loop is exhausted: h.mu.Unlock() and back to the select
\* (websocket.go:72-75).
HubPassEnd ==
    /\ alive /\ hubPc = "range"
    /\ todo = {}
    /\ hubPc' = "select"
    /\ update' = NoUpdate
    /\ hubConn' = "none"
    /\ passStart' = {}
    /\ passOk' = {}
    /\ passFail' = {}
    /\ UNCHANGED <<clients, todo, alive>>
    /\ UNCHANGED connVars
    /\ UNCHANGED storeVars
    /\ UNCHANGED <<seq, regCount, removed, byBroadcast>>
    /\ UNCHANGED <<limVars, idVars, auditVars>>

HubStep ==
    \/ \E c \in Conns : HubRegister(c)
    \/ \E c \in Conns : HubUnregister(c)
    \/ \E w \in Writers : HubBroadcast(w)
    \/ \E c \in Conns : HubWriteBegin(c)
    \/ HubWriteOk
    \/ HubWriteErr
    \/ HubWritePanic
    \/ HubPassEnd

\* ----------------------------------------------------------- wsHandler

\* upgrader.Upgrade succeeded (websocket.go:80); the handler now waits at
\* hub.register <- conn (websocket.go:87).
WsUpgradeOk(c) ==
    /\ alive
    /\ NextConn(c)
    /\ Load < MaxLoad
    /\ pc' = [pc EXCEPT ![c] = "register"]
    /\ UNCHANGED hubVars
    /\ UNCHANGED <<snap, closeCount, peer, inWrite, raced, recv>>
    /\ UNCHANGED storeVars
    /\ UNCHANGED histVars
    /\ UNCHANGED <<limVars, idVars, auditVars>>

\* upgrader.Upgrade failed: log and return before registration
\* (websocket.go:81-84).
WsUpgradeErr(c) ==
    /\ alive
    /\ NextConn(c)
    /\ Load < MaxLoad
    /\ pc' = [pc EXCEPT ![c] = "refused"]
    /\ UNCHANGED hubVars
    /\ UNCHANGED <<snap, closeCount, peer, inWrite, raced, recv>>
    /\ UNCHANGED storeVars
    /\ UNCHANGED histVars
    /\ UNCHANGED <<limVars, idVars, auditVars>>

\* FindOne(...).Decode(&counter): the stored value, or the zero value when
\* the store fails (the error is discarded, websocket.go:96-97).
FindOne(stored, ok) == IF ok THEN stored ELSE 0

\* countersCollection.FindOne({"_id": "webhook"}) (websocket.go:96).
WsFindWebhook(c) ==
    /\ alive
    /\ pc[c] = "find_webhook"
    /\ \E ok \in BOOLEAN :
          snap' = [snap EXCEPT ![c].count = FindOne(count, ok)]
    /\ pc' = [pc EXCEPT ![c] = "find_total"]
    /\ UNCHANGED hubVars
    /\ UNCHANGED <<closeCount, peer, inWrite, raced, recv>>
    /\ UNCHANGED storeVars
    /\ UNCHANGED histVars
    /\ UNCHANGED <<limVars, idVars, auditVars>>

\* countersCollection.FindOne({"_id": "totalClicks"}) (websocket.go:97).
WsFindTotal(c) ==
    /\ alive
    /\ pc[c] = "find_total"
    /\ \E ok \in BOOLEAN :
          snap' = [snap EXCEPT ![c].totalClicks = FindOne(totalClicks, ok)]
    /\ pc' = [pc EXCEPT ![c] = "snapshot"]
    /\ UNCHANGED hubVars
    /\ UNCHANGED <<closeCount, peer, inWrite, raced, recv>>
    /\ UNCHANGED storeVars
    /\ UNCHANGED histVars
    /\ UNCHANGED <<limVars, idVars, auditVars>>

\* conn.WriteJSON(CounterUpdate{...}) is entered, in the handler's goroutine
\* (websocket.go:99).
WsSnapshotBegin(c) ==
    /\ alive
    /\ pc[c] = "snapshot"
    /\ pc' = [pc EXCEPT ![c] = "snapshot_write"]
    /\ BeginWrite(c, "ws")
    /\ UNCHANGED hubVars
    /\ UNCHANGED <<snap, closeCount, peer, recv>>
    /\ UNCHANGED storeVars
    /\ UNCHANGED histVars
    /\ UNCHANGED <<limVars, idVars, auditVars>>

\* The snapshot write returned nil; the handler registers its deferred
\* unregister and enters the read loop (websocket.go:99-111).
WsSnapshotOk(c) ==
    /\ alive
    /\ pc[c] = "snapshot_write"
    /\ CanReturn(c)
    /\ "ok" \in WriteOutcomes(c, "ws")
    /\ EndWrite(c, "ws")
    /\ Deliver(c, CounterUpdate("snapshot", 0, snap[c].count, snap[c].totalClicks))
    /\ pc' = [pc EXCEPT ![c] = "read"]
    /\ UNCHANGED hubVars
    /\ snap' = [snap EXCEPT ![c] = NoLocals]
    /\ UNCHANGED <<closeCount, peer>>
    /\ UNCHANGED storeVars
    /\ UNCHANGED histVars
    /\ UNCHANGED <<limVars, idVars, auditVars>>

\* The snapshot write returned an error, which the handler discards
\* (websocket.go:99-102): the connection stays registered.
WsSnapshotErr(c) ==
    /\ alive
    /\ pc[c] = "snapshot_write"
    /\ CanReturn(c)
    /\ "err" \in WriteOutcomes(c, "ws")
    /\ EndWrite(c, "ws")
    /\ pc' = [pc EXCEPT ![c] = "read"]
    /\ UNCHANGED hubVars
    /\ snap' = [snap EXCEPT ![c] = NoLocals]
    /\ UNCHANGED <<closeCount, peer, recv>>
    /\ UNCHANGED storeVars
    /\ UNCHANGED histVars
    /\ UNCHANGED <<limVars, idVars, auditVars>>

\* The raced snapshot write panicked.  net/http recovers a panic of a
\* handler goroutine; the deferred unregister (websocket.go:105) is not yet
\* registered, so the handler ends without unregistering.
WsSnapshotPanic(c) ==
    /\ alive
    /\ pc[c] = "snapshot_write"
    /\ CanReturn(c)
    /\ "panic" \in WriteOutcomes(c, "ws")
    /\ EndWrite(c, "ws")
    /\ pc' = [pc EXCEPT ![c] = "done"]
    /\ UNCHANGED hubVars
    /\ snap' = [snap EXCEPT ![c] = NoLocals]
    /\ UNCHANGED <<closeCount, peer, recv>>
    /\ UNCHANGED storeVars
    /\ UNCHANGED histVars
    /\ UNCHANGED <<limVars, idVars, auditVars>>

\* conn.ReadMessage() returned an error (peer closed, or the connection was
\* closed by the hub): break, and the deferred function waits at
\* hub.unregister <- conn (websocket.go:105-115).
WsReadError(c) ==
    /\ alive
    /\ pc[c] = "read"
    /\ peer[c] = "gone" \/ Closed(c)
    /\ pc' = [pc EXCEPT ![c] = "unregister"]
    /\ UNCHANGED hubVars
    /\ UNCHANGED <<snap, closeCount, peer, inWrite, raced, recv>>
    /\ UNCHANGED storeVars
    /\ UNCHANGED histVars
    /\ UNCHANGED <<limVars, idVars, auditVars>>

\* The program observes the remote end only inside conn.WriteJSON and
\* conn.ReadMessage; a change of the remote end at any other moment is
\* indistinguishable from the same change at the next such moment.
Observing(c) == inWrite[c] # {} \/ pc[c] = "read"

\* The remote end of the connection goes away.
PeerGone(c) ==
    /\ alive
    /\ Observing(c)
    /\ ~Closed(c)
    /\ peer[c] \in {"up", "stalled"}
    /\ peer' = [peer EXCEPT ![c] = "gone"]
    /\ UNCHANGED hubVars
    /\ UNCHANGED <<pc, snap, closeCount, inWrite, raced, recv>>
    /\ UNCHANGED storeVars
    /\ UNCHANGED histVars
    /\ UNCHANGED <<limVars, idVars, auditVars>>

\* The remote end stops reading: writes to it no longer return.
PeerStall(c) ==
    /\ alive
    /\ inWrite[c] # {}
    /\ ~Closed(c)
    /\ peer[c] = "up"
    /\ peer' = [peer EXCEPT ![c] = "stalled"]
    /\ UNCHANGED hubVars
    /\ UNCHANGED <<pc, snap, closeCount, inWrite, raced, recv>>
    /\ UNCHANGED storeVars
    /\ UNCHANGED histVars
    /\ UNCHANGED <<limVars, idVars, auditVars>>

WsStep(c) ==
    \/ WsUpgradeOk(c)
    \/ WsUpgradeErr(c)
    \/ WsFindWebhook(c)
    \/ WsFindTotal(c)
    \/ WsSnapshotBegin(c)
    \/ WsSnapshotOk(c)
    \/ WsSnapshotErr(c)
    \/ WsSnapshotPanic(c)
    \/ WsReadError(c)

\* ------------------------------------- incrementHandler, decrementHandler

\* FindOneAndUpdate({"_id": "webhook"}, $inc count by delta, ReturnDocument
\* After) succeeded: one atomic store operation; then the un-awaited
\* totalClicks goroutine is started (part_000:68-89, :121-142).
CounterHandler(w, delta) ==
    /\ alive
    /\ FirstIdle(w)
    /\ Load < MaxLoad
    /\ reqs' = reqs + 1
    /\ count' = count + delta
    /\ wupd' = [wupd EXCEPT ![w] = [count |-> count + delta, totalClicks |-> 0]]
    /\ bg' = bg + 1
    /\ wpc' = [wpc EXCEPT ![w] = "find_total"]
    /\ UNCHANGED <<totalClicks, failed>>
    /\ UNCHANGED hubVars
    /\ UNCHANGED connVars
    /\ UNCHANGED histVars
    /\ applied' = Append(applied, delta)
    /\ UNCHANGED submitted
    /\ UNCHANGED <<limVars, idVars>>

incrementHandler(w) == CounterHandler(w, 1)

decrementHandler(w) == CounterHandler(w, -1)

\* Mutant of CounterHandlerErr: the return after http.Error is missing, so
\* the handler goes on to broadcast its zero-valued counter.
CounterHandlerErrGoesOn(w) ==
    /\ alive
    /\ FirstIdle(w)
    /\ Load < MaxLoad
    /\ reqs' = reqs + 1
    /\ failed' = failed + 1
    /\ wpc' = [wpc EXCEPT ![w] = "find_total"]
    /\ UNCHANGED <<count, totalClicks, wupd, bg>>
    /\ UNCHANGED hubVars
    /\ UNCHANGED connVars
    /\ UNCHANGED histVars
    /\ UNCHANGED <<limVars, idVars, auditVars>>

\* The primary FindOneAndUpdate failed: http.Error 500 and return
\* (part_000:76-79, :129-132).
CounterHandlerErr(w) ==
    /\ alive
    /\ FirstIdle(w)
    /\ Load < MaxLoad
    /\ reqs' = reqs + 1
    /\ failed' = failed + 1
    /\ UNCHANGED <<count, totalClicks, wpc, wupd, bg>>
    /\ UNCHANGED hubVars
    /\ UNCHANGED connVars
    /\ UNCHANGED histVars
    /\ UNCHANGED <<limVars, idVars, auditVars>>

\* Mutant of TotalClicksTask: the task applies the request's own delta, so
\* a decrement lowers the stored total.
TotalClicksTaskSigned ==
    /\ alive
    /\ bg > 0
    /\ bg' = bg - 1
    /\ \E d \in {1, -1} : totalClicks' = totalClicks + d
    /\ UNCHANGED <<count, wpc, wupd, reqs, failed>>
    /\ UNCHANGED hubVars
    /\ UNCHANGED connVars
    /\ UNCHANGED histVars
    /\ UNCHANGED <<limVars, idVars, auditVars>>

\* The background goroutine: FindOneAndUpdate({"_id": "totalClicks"}, $inc 1),
\* result and error discarded (part_000:82-89, :135-142).
TotalClicksTask ==
    /\ alive
    /\ bg > 0
    /\ bg' = bg - 1
    /\ \E ok \in BOOLEAN :
          totalClicks' = IF ok THEN totalClicks + 1 ELSE totalClicks
    /\ UNCHANGED <<count, wpc, wupd, reqs, failed>>
    /\ UNCHANGED hubVars
    /\ UNCHANGED connVars
    /\ UNCHANGED histVars
    /\ UNCHANGED <<limVars, idVars, auditVars>>

\* FindOne({"_id": "totalClicks"}); on error log and use 0; then the handler
\* waits at hub.broadcast <- update (part_000:91-104, :144-157).
HandlerFindTotal(w) ==
    /\ alive
    /\ wpc[w] = "find_total"
    /\ \E ok \in BOOLEAN :
          wupd' = [wupd EXCEPT ![w].totalClicks = FindOne(totalClicks, ok)]
    /\ wpc' = [wpc EXCEPT ![w] = "send"]
    /\ UNCHANGED <<count, totalClicks, bg, reqs, failed>>
    /\ UNCHANGED hubVars
    /\ UNCHANGED connVars
    /\ UNCHANGED histVars
    /\ UNCHANGED <<limVars, idVars, auditVars>>

WriterStep(w) ==
    \/ incrementHandler(w)
    \/ decrementHandler(w)
    \/ CounterHandlerErr(w)
    \/ HandlerFindTotal(w)

\* ------------------- incrementHandler, decrementHandler of counter.go

\* counter.go holds the handlers without the totalClicks document: the
\* store is updated by UpdateOne and read back by a separate FindOne.

\* UpdateOne({"_id": "webhook"}, $inc count by delta) succeeded
\* (counter.go:57-65, :93-101).
UpdateOne(w, delta) ==
    /\ alive
    /\ FirstIdle(w)
    /\ Load < MaxLoad
    /\ reqs' = reqs + 1
    /\ count' = count + delta
    /\ wpc' = [wpc EXCEPT ![w] = "find_webhook"]
    /\ applied' = Append(applied, delta)
    /\ UNCHANGED <<totalClicks, wupd, bg, failed, submitted>>
    /\ UNCHANGED hubVars
    /\ UNCHANGED connVars
    /\ UNCHANGED histVars
    /\ UNCHANGED <<limVars, idVars>>

\* UpdateOne failed: http.Error 500 and return (counter.go:62-65, :98-101).
UpdateOneErr(w) ==
    /\ alive
    /\ FirstIdle(w)
    /\ Load < MaxLoad
    /\ reqs' = reqs + 1
    /\ failed' = failed + 1
    /\ UNCHANGED <<count, totalClicks, wpc, wupd, bg>>
    /\ UNCHANGED hubVars
    /\ UNCHANGED connVars
    /\ UNCHANGED histVars
    /\ UNCHANGED <<limVars, idVars, auditVars>>

\* FindOne({"_id": "webhook"}).Decode(&webhookCounter) succeeded: the
\* handler holds the count stored now and waits at
\* hub.broadcast <- CounterUpdate{Count: ...} (counter.go:67-76, :103-112).
FindOneCounter(w) ==
    /\ alive
    /\ wpc[w] = "find_webhook"
    /\ wupd' = [wupd EXCEPT ![w] = [count |-> count, totalClicks |-> 0]]
    /\ wpc' = [wpc EXCEPT ![w] = "send"]
    /\ UNCHANGED <<count, totalClicks, bg, reqs, failed>>
    /\ UNCHANGED hubVars
    /\ UNCHANGED connVars
    /\ UNCHANGED histVars
    /\ UNCHANGED <<limVars, idVars, auditVars>>

\* The FindOne failed: http.Error 500 and return, after the update was
\* applied (counter.go:70-73, :106-109).
FindOneCounterErr(w) ==
    /\ alive
    /\ wpc[w] = "find_webhook"
    /\ failed' = failed + 1
    /\ wpc' = [wpc EXCEPT ![w] = "idle"]
    /\ UNCHANGED <<count, totalClicks, wupd, bg, reqs>>
    /\ UNCHANGED hubVars
    /\ UNCHANGED connVars
    /\ UNCHANGED histVars
    /\ UNCHANGED <<limVars, idVars, auditVars>>

CounterGoStep(w) ==
    \/ UpdateOne(w, 1)
    \/ UpdateOne(w, -1)
    \/ UpdateOneErr(w)
    \/ FindOneCounter(w)
    \/ FindOneCounterErr(w)

\* ------------------------------------------------------------- limiter

\* rateLimitMiddleware(quoteHandler, 5) (README.md:347).
RequestsPerMinute == 5
\* rate.Limit(requestsPerMinute)/60 tokens per second (README.md:227):
\* tokens are counted in units of 1/TokenScale, so that one second adds
\* RequestsPerMinute units and one request costs TokenScale units.
TokenScale == 60
Burst == RequestsPerMinute * TokenScale
\* if len(limiters) > 10000 (README.md:231)
HighWater == 10000
\* if count > 5000 { break } (README.md:237)
SweepLimit == 5000

\* Goroutines serving /quote requests.
Reqs == {"r1", "r2"}
\* Requests from address "a", requests from never-seen addresses, and clock
\* advances, in a behaviour of the admission specification.
MaxAdmits == 7
MaxArrivals == 1
MaxTicks == 1
\* Clock advances: within a second, one token's worth, a full minute.
Delays == {1, 12, 60}
\* getLimiter calls for never-seen addresses in a behaviour of the eviction
\* specification.
MaxCalls == 15002

NoBucket == [tokens |-> 0, last |-> 0]

Min(x, y) == IF x < y THEN x ELSE y

\* len(limiters)
Entries(m) == m.others + (IF m.tracked # 0 THEN 1 ELSE 0)

\* The limiter at rest: no request, an empty map.
InitLimiter(entries, qa, qnew) ==
    /\ limiters = [tracked |-> 0, others |-> entries]
    /\ mu = "none"
    /\ bucket = [g \in 1..MaxAdmits |-> NoBucket]
    /\ nextGen = 1
    /\ rpc = [r \in Reqs |-> "idle"]
    /\ rip = [r \in Reqs |-> "none"]
    /\ rlim = [r \in Reqs |-> 0]
    /\ now = 0
    /\ ticks = 0
    /\ quota = [a |-> qa, new |-> qnew]
    /\ log = <<>>
    /\ calls = 0

\* No request is being resolved.  Strings are sequences of characters.
NoRequest == [forwarded |-> <<>>, realIP |-> <<>>, remoteAddr |-> <<>>]

NotResolved == [done |-> FALSE, ip |-> <<>>]

InitNoRequest == request = NoRequest /\ ident = NotResolved

Init == InitHub /\ InitLimiter(0, 0, 0) /\ InitNoRequest

\* Mutant of Sweep: the loop stops once count reaches SweepLimit.
SweepStopsEarly(m) ==
    IF Entries(m) > HighWater
    THEN LET gone == SweepLimit
         IN  {n \in {[tracked |-> m.tracked, others |-> m.others - gone],
                     [tracked |-> 0, others |-> m.others - (gone - 1)]} :
                  n.others >= 0 /\ Entries(n) = Entries(m) - gone}
    ELSE {m}

\* Mutant of Sweep: the sweep starts one entry late.
SweepLate(m) ==
    IF Entries(m) > HighWater + 1
    THEN LET gone == SweepLimit + 1
         IN  {n \in {[tracked |-> m.tracked, others |-> m.others - gone],
                     [tracked |-> 0, others |-> m.others - (gone - 1)]} :
                  n.others >= 0 /\ Entries(n) = Entries(m) - gone}
    ELSE {m}

\* The sweep (README.md:231-241): when the map holds more than HighWater
\* entries, range over it in map order deleting entries until count exceeds
\* SweepLimit.  Which entries go is up to the map's iteration order: the
\* entry of "a" is among them or not.  The set of maps that can result.
Sweep(m) ==
    IF Entries(m) > HighWater
    THEN LET gone == SweepLimit + 1
         IN  {n \in {[tracked |-> m.tracked, others |-> m.others - gone],
                     [tracked |-> 0, others |-> m.others - (gone - 1)]} :
                  n.others >= 0 /\ Entries(n) = Entries(m) - gone}
    ELSE {m}

\* rate.NewLimiter(rate.Limit(requestsPerMinute)/60, requestsPerMinute)
\* (README.md:227): a full bucket.
NewLimiter == [tokens |-> Burst, last |-> now]

\* Mutant of Advance: the rate is not divided by 60, so the bucket refills
\* RequestsPerMinute tokens per second.
AdvancePerSecond(b) ==
    Min(Burst, b.tokens + (now - b.last) * RequestsPerMinute * TokenScale)

\* The tokens of bucket b at the present time: refilled at
\* RequestsPerMinute units per second since b.last, up to Burst.
Advance(b) == Min(Burst, b.tokens + (now - b.last) * RequestsPerMinute)

\* limiter.Allow() (README.md:253): whether a token is available now.
Allows(b) == Advance(b) >= TokenScale

\* The bucket after limiter.Allow().
Consume(b) ==
    [tokens |-> IF Allows(b) THEN Advance(b) - TokenScale ELSE Advance(b),
     last |-> now]

\* A /quote request arrives: ip := getIPAddress(r), and getLimiter is
\* entered, waiting at mu.Lock() (README.md:249-251, :222).
MiddlewareStart(r, ip) ==
    /\ rpc[r] = "idle"
    /\ quota[ip] > 0
    /\ quota' = [quota EXCEPT ![ip] = @ - 1]
    /\ rip' = [rip EXCEPT ![r] = ip]
    /\ rpc' = [rpc EXCEPT ![r] = "lock"]
    /\ UNCHANGED <<limiters, mu, bucket, nextGen, rlim, now, ticks, log, calls>>
    /\ UNCHANGED <<hubVars, connVars, storeVars, histVars, idVars, auditVars>>

\* Mutant of LockMu: the lock is taken without waiting for its holder.
LockMuNoWait(r) ==
    /\ rpc[r] = "lock"
    /\ mu' = r
    /\ rpc' = [rpc EXCEPT ![r] = "locked"]
    /\ UNCHANGED <<limiters, bucket, nextGen, rip, rlim, now, ticks, quota, log, calls>>
    /\ UNCHANGED <<hubVars, connVars, storeVars, histVars, idVars, auditVars>>

\* mu.Lock() is acquired (README.md:222).
LockMu(r) ==
    /\ rpc[r] = "lock"
    /\ mu = "none"
    /\ mu' = r
    /\ rpc' = [rpc EXCEPT ![r] = "locked"]
    /\ UNCHANGED <<limiters, bucket, nextGen, rip, rlim, now, ticks, quota, log, calls>>
    /\ UNCHANGED <<hubVars, connVars, storeVars, histVars, idVars, auditVars>>

\* getLimiter's body for address "a", to its return and the deferred
\* mu.Unlock() (README.md:223-244): lookup, and on a miss create, insert and
\* sweep.
GetLimiterTracked(r) ==
    /\ rpc[r] = "locked"
    /\ rip[r] = "a"
    /\ IF limiters.tracked # 0
       THEN /\ rlim' = [rlim EXCEPT ![r] = limiters.tracked]
            /\ UNCHANGED <<limiters, bucket, nextGen>>
       ELSE /\ rlim' = [rlim EXCEPT ![r] = nextGen]
            /\ bucket' = [bucket EXCEPT ![nextGen] = NewLimiter]
            /\ nextGen' = nextGen + 1
            /\ limiters' \in Sweep([limiters EXCEPT !.tracked = nextGen])
    /\ mu' = "none"
    /\ rpc' = [rpc EXCEPT ![r] = "allow"]
    /\ UNCHANGED <<rip, now, ticks, quota, log, calls>>
    /\ UNCHANGED <<hubVars, connVars, storeVars, histVars, idVars, auditVars>>

\* getLimiter's body for a never-seen address: always a miss.
GetLimiterNew(r) ==
    /\ rpc[r] = "locked"
    /\ rip[r] = "new"
    /\ limiters' \in Sweep([limiters EXCEPT !.others = @ + 1])
    /\ rlim' = [rlim EXCEPT ![r] = 0]
    /\ calls' = calls + 1
    /\ mu' = "none"
    /\ rpc' = [rpc EXCEPT ![r] = "allow"]
    /\ UNCHANGED <<bucket, nextGen, rip, now, ticks, quota, log>>
    /\ UNCHANGED <<hubVars, connVars, storeVars, histVars, idVars, auditVars>>

\* Mutant of Decision: the return after http.Error is missing, so the
\* wrapped handler runs for a denied request too.
DecisionNoReturn(ok, gen) ==
    [t |-> now, ok |-> ok, gen |-> gen,
     status |-> IF ok THEN "next" ELSE "TooManyRequests",
     invoked |-> 1]

\* What rateLimitMiddleware does with limiter.Allow()'s result
\* (README.md:253-258): on false, http.Error with StatusTooManyRequests and
\* return; on true, next(w, r), whose response is the request's response.
\* invoked counts the calls of the wrapped handler.
Decision(ok, gen) ==
    [t |-> now, ok |-> ok, gen |-> gen,
     status |-> IF ok THEN "next" ELSE "TooManyRequests",
     invoked |-> IF ok THEN 1 ELSE 0]

\* if !limiter.Allow() { 429; return }; next(w, r) (README.md:253-258), for
\* address "a".
AllowTracked(r) ==
    /\ rpc[r] = "allow"
    /\ rip[r] = "a"
    /\ bucket' = [bucket EXCEPT ![rlim[r]] = Consume(@)]
    /\ log' = Append(log, Decision(Allows(bucket[rlim[r]]), rlim[r]))
    /\ rpc' = [rpc EXCEPT ![r] = "idle"]
    /\ rip' = [rip EXCEPT ![r] = "none"]
    /\ rlim' = [rlim EXCEPT ![r] = 0]
    /\ UNCHANGED <<limiters, mu, nextGen, now, ticks, quota, calls>>
    /\ UNCHANGED <<hubVars, connVars, storeVars, histVars, idVars, auditVars>>

\* The same for a never-seen address: its bucket is new and full, the
\* request is admitted.
AllowNew(r) ==
    /\ rpc[r] = "allow"
    /\ rip[r] = "new"
    /\ rpc' = [rpc EXCEPT ![r] = "idle"]
    /\ rip' = [rip EXCEPT ![r] = "none"]
    /\ UNCHANGED <<limiters, mu, bucket, nextGen, rlim, now, ticks, quota, log, calls>>
    /\ UNCHANGED <<hubVars, connVars, storeVars, histVars, idVars, auditVars>>

\* The clock advances by d seconds.
Tick(d) ==
    /\ ticks < MaxTicks
    /\ ticks' = ticks + 1
    /\ now' = now + d
    /\ UNCHANGED <<limiters, mu, bucket, nextGen, rpc, rip, rlim, quota, log, calls>>
    /\ UNCHANGED <<hubVars, connVars, storeVars, histVars, idVars, auditVars>>

Next ==
    \/ HubStep
    \/ \E c \in Conns : WsStep(c)
    \/ \E c \in Conns : PeerGone(c)
    \/ \E c \in Conns : PeerStall(c)
    \/ \E w \in Writers : WriterStep(w)
    \/ TotalClicksTask

Spec == Init /\ [][Next]_vars

\* The server built with counter.go's handlers.
NextCounterGo ==
    \/ HubStep
    \/ \E c \in Conns : WsStep(c)
    \/ \E c \in Conns : PeerGone(c)
    \/ \E c \in Conns : PeerStall(c)
    \/ \E w \in Writers : CounterGoStep(w)

SpecCounterGo == Init /\ [][NextCounterGo]_vars

\* The admission limiter under requests from address "a" and from
\* never-seen addresses, starting from an empty map or from a map that
\* requests from other addresses have filled up to the sweep's threshold
\* (the eviction specification reaches HighWater entries).
InitAdmit ==
    /\ InitHub
    /\ \E entries \in {0, HighWater - 1, HighWater} :
          InitLimiter(entries, MaxAdmits, MaxArrivals)
    /\ InitNoRequest

NextAdmit ==
    \/ \E r \in Reqs : \E ip \in {"a", "new"} : MiddlewareStart(r, ip)
    \/ \E r \in Reqs : LockMu(r)
    \/ \E r \in Reqs : GetLimiterTracked(r)
    \/ \E r \in Reqs : GetLimiterNew(r)
    \/ \E r \in Reqs : AllowTracked(r)
    \/ \E r \in Reqs : AllowNew(r)
    \/ \E d \in Delays : Tick(d)

SpecAdmit == InitAdmit /\ [][NextAdmit]_vars

\* The same requests on a map that starts empty: it stays far below the
\* sweep's threshold, and address "a" keeps one bucket.
InitBucket == InitHub /\ InitLimiter(0, MaxAdmits, MaxArrivals) /\ InitNoRequest

SpecBucket == InitBucket /\ [][NextAdmit]_vars

\* The map under getLimiter calls for MaxCalls distinct never-seen
\* addresses, starting empty.
InitEvict == InitHub /\ InitLimiter(0, 0, MaxCalls) /\ InitNoRequest

NextEvict ==
    \/ \E r \in Reqs : MiddlewareStart(r, "new")
    \/ \E r \in Reqs : LockMu(r)
    \/ \E r \in Reqs : GetLimiterNew(r)
    \/ \E r \in Reqs : AllowNew(r)

SpecEvict == InitEvict /\ [][NextEvict]_vars

\* The goroutines are scheduled fairly: the hub loop, every handler and the
\* background task take a step they can take.  Nothing is assumed of the
\* remote ends.
FairSpec ==
    /\ Spec
    /\ WF_vars(HubStep)
    /\ \A c \in Conns : WF_vars(WsStep(c))
    /\ \A w \in Writers : WF_vars(WriterStep(w))
    /\ WF_vars(TotalClicksTask)

\* ----------------------------------------------------------- getIPAddress

\* Longest X-Forwarded-For value considered.
MaxHeader == 4

\* The strings over alphabet A of at most n characters.
Strings(A, n) == UNION {[1..k -> A] : k \in 0..n}

\* strings.IndexByte and strings.LastIndexByte with positions from 1, and 0
\* where Go returns -1.
IndexByte(str, ch) ==
    IF \E i \in DOMAIN str : str[i] = ch
    THEN CHOOSE i \in DOMAIN str :
             str[i] = ch /\ \A j \in 1..(i - 1) : str[j] # ch
    ELSE 0

LastIndexByte(str, ch) ==
    IF \E i \in DOMAIN str : str[i] = ch
    THEN CHOOSE i \in DOMAIN str :
             str[i] = ch /\ \A j \in (i + 1)..Len(str) : str[j] # ch
    ELSE 0

\* str[from:] in Go, with from counted from 1.
From(str, from) == SubSeq(str, from, Len(str))

SplitError == [err |-> TRUE, host |-> <<>>]

\* net.SplitHostPort as getIPAddress uses it (README.md:200, :213): the
\* host of "host:port" and of "[host]:port", or an error.  The port is the
\* part after the last colon; host and port may be empty.
SplitHostPort(hostport) ==
    LET i == LastIndexByte(hostport, ":")
    IN  IF i = 0 THEN SplitError
        ELSE IF hostport[1] = "["
        THEN LET end == IndexByte(hostport, "]")
             IN  IF end = 0 \/ end = Len(hostport) \/ end + 1 # i
                 THEN SplitError
                 ELSE IF \/ IndexByte(From(hostport, 2), "[") # 0
                         \/ IndexByte(From(hostport, end + 1), "]") # 0
                 THEN SplitError
                 ELSE [err |-> FALSE, host |-> SubSeq(hostport, 2, end - 1)]
        ELSE LET host == SubSeq(hostport, 1, i - 1)
             IN  IF \/ IndexByte(host, ":") # 0
                    \/ IndexByte(hostport, "[") # 0
                    \/ IndexByte(hostport, "]") # 0
                 THEN SplitError
                 ELSE [err |-> FALSE, host |-> host]

\* getIPAddress (README.md:195-218).
getIPAddress(forwarded, realIP, remoteAddr) ==
    IF forwarded # <<>>
    THEN IF ~SplitHostPort(forwarded).err
         THEN SplitHostPort(forwarded).host
         ELSE forwarded
    ELSE IF realIP # <<>> THEN realIP
    ELSE IF SplitHostPort(remoteAddr).err
    THEN remoteAddr
    ELSE SplitHostPort(remoteAddr).host

\* The peer addresses a request can carry: net/http sets RemoteAddr to
\* "IP:port"; a caller of the handler may leave it empty or set it without a
\* port.
RemoteAddrs == {<<>>, <<"3">>, <<"3", ":", "4">>}

\* The requests considered.  The headers are the client's to choose: any
\* X-Forwarded-For value of digits, colons and brackets, an X-Real-IP that
\* is absent or present.
Requests ==
    [forwarded : Strings({"1", ":", "[", "]"}, MaxHeader),
     realIP : Strings({"2"}, 1),
     remoteAddr : RemoteAddrs]

InitIdentity ==
    /\ InitHub /\ InitLimiter(0, 0, 0)
    /\ request \in Requests
    /\ ident = NotResolved

\* ip := getIPAddress(r) (README.md:250).
ResolveIdentity ==
    /\ ~ident.done
    /\ ident' = [done |-> TRUE,
                 ip |-> getIPAddress(request.forwarded, request.realIP,
                                     request.remoteAddr)]
    /\ UNCHANGED request
    /\ UNCHANGED <<hubVars, connVars, storeVars, histVars, limVars, auditVars>>

NextIdentity == ResolveIdentity

SpecIdentity == InitIdentity /\ [][NextIdentity]_vars

\* The same server when every transport write returns (no remote end stops
\* reading), under fair scheduling of the goroutines.
NextLive ==
    \/ HubStep
    \/ \E c \in Conns : WsStep(c)
    \/ \E c \in Conns : PeerGone(c)
    \/ \E w \in Writers : WriterStep(w)
    \/ TotalClicksTask

SpecLive ==
    /\ Init /\ [][NextLive]_vars
    /\ WF_vars(HubStep)
    /\ \A c \in Conns : WF_vars(WsStep(c))
    /\ \A w \in Writers : WF_vars(WriterStep(w))
    /\ WF_vars(TotalClicksTask)

\* ----------------------------------------------------------------- claims

\* The broadcast Updates among the messages of connection c, as positions.
Broadcasts(c) == {i \in DOMAIN recv[c] : recv[c][i].kind = "broadcast"}

Received(c, u) == \E i \in DOMAIN recv[c] : recv[c][i] = u

\* C1: the Registry never holds a Connection twice (a connection is inserted
\* at most once), and a Connection that has been removed from the Registry,
\* by unregister or by a failed broadcast write, is not in the Registry in
\* any later state.
C1_RegistryConsistent ==
    \A c \in Conns :
        /\ regCount[c] <= 1
        /\ c \in removed => c \notin clients

\* A removed connection whose handler has finished, while the Registry
\* holds another connection.
C1_Witness ==
    \E c \in removed : pc[c] = "done" /\ clients # {}

\* C2: at the end of a broadcast pass in which some write failed, every
\* connection that was in the Registry when the pass began and whose write
\* did not fail has received the pass's Update, and every connection whose
\* write failed is closed and out of the Registry.
C2_BroadcastIsolation ==
    (alive /\ hubPc = "range" /\ todo = {} /\ passFail # {}) =>
        /\ \A c \in passStart \ passFail : Received(c, update)
        /\ \A c \in passFail : Closed(c) /\ c \notin clients

\* The end of a pass in which one write failed and another was delivered.
C2_Witness ==
    /\ hubPc = "range" /\ todo = {}
    /\ passFail # {}
    /\ \E c \in passStart \ passFail : Received(c, update)

\* C3: a Connection receives its snapshot before any broadcast-originated
\* Update: every broadcast Update among its messages is preceded by the
\* snapshot.
C3_SnapshotFirst ==
    \A c \in Conns : \A i \in Broadcasts(c) :
        \E j \in 1..(i - 1) : recv[c][j].kind = "snapshot"

\* C4: a Connection receives the Updates in the order in which the hub loop
\* accepted them: of two broadcast Updates it has received, the one accepted
\* earlier was received strictly earlier.
C4_Ordering ==
    \A c \in Conns : \A i, j \in Broadcasts(c) :
        i < j => recv[c][i].seq < recv[c][j].seq

\* A connection that has received two broadcast Updates.
C4_Witness ==
    \E c \in Conns : Cardinality(Broadcasts(c)) >= 2

\* C7: within a pass, a slow or blocked peer does not hold up the others:
\* whenever the hub is inside the write to one connection while other
\* connections of the pass still wait for theirs, the hub loop can take its
\* next step (the write in progress returns).
C7_SlowPeerIsolated ==
    (alive /\ hubPc = "write" /\ todo \ {hubConn} # {}) => ENABLED HubStep

\* C8: at no time are two writes in progress on the same Connection.
C8_SingleWriter ==
    \A c \in Conns : Cardinality(inWrite[c]) <= 1

\* C10: unregister of a Connection that is not in the Registry changes
\* neither the Registry nor any connection's close count; unregister of a
\* Connection that is present removes exactly it and closes exactly it; and
\* no Connection is closed more than once.
C10_UnregisterStep ==
    \A c \in Conns :
        (pc[c] = "unregister" /\ pc'[c] = "done") =>
            IF c \in clients
            THEN /\ clients' = clients \ {c}
                 /\ closeCount' = [closeCount EXCEPT ![c] = @ + 1]
            ELSE /\ clients' = clients
                 /\ closeCount' = closeCount

C10_UnregisterIdempotent ==
    /\ [](\A c \in Conns : closeCount[c] <= 1)
    /\ [][C10_UnregisterStep]_vars

\* The hub has processed the unregister of a connection that a failed
\* broadcast write had already removed and closed.
C10_Witness ==
    \E c \in byBroadcast : pc[c] = "done" /\ closeCount[c] = 1

\* Handlers past their store mutation that have not yet handed their Update
\* to the hub.
InFlight == {w \in Writers : wpc[w] # "idle"}

\* C11: a request whose primary store mutation failed is answered with a
\* server error and submits no Update: the Updates the hub has accepted
\* plus those still to be submitted are exactly the requests that did not
\* fail, and as many background totalClicks tasks were started.
C11_NoBroadcastOnStoreFailure ==
    /\ seq + Cardinality(InFlight) = reqs - failed
    /\ bg <= reqs - failed

\* A request has failed, another has been broadcast and received.
C11_Witness ==
    /\ failed > 0
    /\ seq > 0
    /\ \E c \in Conns : Broadcasts(c) # {}

\* The snapshot write on c failed: the handler is past it and c has not
\* received the snapshot.
SnapshotFailed(c) ==
    /\ pc[c] \in {"read", "unregister", "done"}
    /\ \A i \in DOMAIN recv[c] : recv[c][i].kind # "snapshot"

\* C12 as stated: whenever the hub loop waits for its next request, the
\* Registry holds no Connection on which a write has failed, be it a
\* broadcast write or the on-connect snapshot write.
C12_RegistryWritable ==
    hubPc = "select" =>
        \A c \in clients : c \notin byBroadcast /\ ~SnapshotFailed(c)

\* Every handler has handed over its Update and the hub has finished
\* every pass.
Quiet == hubPc = "select" /\ InFlight = {}

\* The last broadcast Update c has received.
LastBroadcast(c) ==
    recv[c][CHOOSE i \in Broadcasts(c) : \A j \in Broadcasts(c) : j <= i]

\* C14 as stated: once every increment/decrement request has completed and
\* the hub has processed its Update, the count of the last Update each
\* still registered Connection has received from the hub equals the stored
\* count.
C14_ClientsInSync ==
    Quiet =>
        \A c \in clients :
            Broadcasts(c) # {} => LastBroadcast(c).count = count

\* C19 as stated: in the sequence of Updates delivered to one Connection
\* the totalClicks value never decreases.
C19_TotalMonotoneAtClient ==
    \A c \in Conns : \A i \in DOMAIN recv[c] :
        i > 1 => recv[c][i - 1].totalClicks <= recv[c][i].totalClicks

\* C19 as amended: the stored total never decreases, and every Update
\* delivered carries a total between 0 and the total stored at that time.
C19_TotalMonotoneInStore ==
    /\ [](\A c \in Conns : \A i \in DOMAIN recv[c] :
            recv[c][i].totalClicks \in 0..totalClicks)
    /\ [][totalClicks' >= totalClicks]_vars

\* A Connection has received a positive total and, after it, a smaller one.
C19_Witness ==
    \E c \in Conns : \E i \in DOMAIN recv[c] :
        /\ i > 1
        /\ recv[c][i - 1].totalClicks > recv[c][i].totalClicks
        /\ totalClicks >= recv[c][i - 1].totalClicks

\* C13 as stated: the hub loop never terminates; after any request it
\* returns to waiting for the next one; and, every transport write
\* returning, every register, unregister and broadcast submission is
\* eventually accepted under fair scheduling.
C13_HubServesForever ==
    /\ []alive
    /\ [](hubPc # "select" => <>(hubPc = "select"))
    /\ \A c \in Conns : [](pc[c] = "register" => <>(pc[c] # "register"))
    /\ \A c \in Conns : [](pc[c] = "unregister" => <>(pc[c] # "unregister"))
    /\ \A w \in Writers : [](wpc[w] = "send" => <>(wpc[w] # "send"))

\* C18 as stated: every transport write returning and scheduling being
\* fair, a Connection whose read loop has observed closure or an error is
\* eventually unregistered: its deferred unregister has been accepted, and
\* it is absent from the Registry and closed.
C18_EventuallyUnregistered ==
    \A c \in Conns :
        [](pc[c] = "unregister" =>
               <>(pc[c] = "done" /\ c \notin clients /\ Closed(c)))

\* Seconds in which an empty bucket refills.
RefillSeconds == Burst \div RequestsPerMinute

\* Decision i for address "a" is the first taken on its bucket.
FirstOnBucket(i) == \A j \in 1..(i - 1) : log[j].gen # log[i].gen

\* Decisions i .. i+RequestsPerMinute are all taken within one second.
BurstWindow(i) ==
    /\ i + RequestsPerMinute <= Len(log)
    /\ log[i + RequestsPerMinute].t - log[i].t <= 1

\* ... and all on the bucket of decision i.
SameBucket(i) ==
    \A k \in 0..RequestsPerMinute : log[i + k].gen = log[i].gen

BurstThenDeny(i) ==
    /\ \A k \in 0..(RequestsPerMinute - 1) : log[i + k].ok
    /\ ~log[i + RequestsPerMinute].ok

AdmitAfterRefill(i) ==
    (i > 1 /\ log[i].t - log[i - 1].t >= RefillSeconds) => log[i].ok

\* C5 as stated: starting from a fresh bucket, of six decisions for the
\* same address within one second the first five admit and the sixth
\* denies; a decision taken 60 seconds or more after the address's
\* previous one admits.
C5_TokenBucketAdmission ==
    \A i \in DOMAIN log :
        /\ (FirstOnBucket(i) /\ BurstWindow(i)) => BurstThenDeny(i)
        /\ AdmitAfterRefill(i)

\* The arithmetic of one bucket: the same holds of six decisions that are
\* all taken on the bucket the first of them started, that is, when no
\* sweep removed the address's entry from the map in between.
C5_AdmissionOnOneBucket ==
    \A i \in DOMAIN log :
        /\ (FirstOnBucket(i) /\ BurstWindow(i) /\ SameBucket(i)) => BurstThenDeny(i)
        /\ AdmitAfterRefill(i)

\* Six decisions within a second on one bucket, the sixth denied, and a
\* seventh, 60 seconds later, admitted.
C5_OneBucketRun ==
    /\ Len(log) = RequestsPerMinute + 2
    /\ FirstOnBucket(1) /\ BurstWindow(1) /\ SameBucket(1)
    /\ ~log[RequestsPerMinute + 1].ok
    /\ log[RequestsPerMinute + 2].t - log[RequestsPerMinute + 1].t >= RefillSeconds
    /\ log[RequestsPerMinute + 2].ok

\* Seconds of the window of the documented limit.
WindowSeconds == 60

\* The requests of address "a" admitted in the 60 seconds that begin with
\* decision i.
AdmittedInWindow(i) ==
    {j \in i..Len(log) : log[j].ok /\ log[j].t - log[i].t < WindowSeconds}

\* C15 as stated: for one address, at most 5 requests are admitted in any
\* 60-second window.
C15_FivePerMinute ==
    \A i \in DOMAIN log : Cardinality(AdmittedInWindow(i)) <= RequestsPerMinute

\* C16: a request that finds no token is answered with the rate-limit
\* error and the wrapped handler is not invoked; a request that finds a
\* token invokes the wrapped handler exactly once.
C16_DenialShortCircuits ==
    \A i \in DOMAIN log :
        /\ ~log[i].ok => log[i].status = "TooManyRequests" /\ log[i].invoked = 0
        /\ log[i].ok => log[i].status = "next" /\ log[i].invoked = 1

\* A request of address "a" has been admitted and a later one denied.
C16_Witness ==
    \E i, j \in DOMAIN log : i < j /\ log[i].ok /\ ~log[j].ok

\* Request r's getLimiter call returns in this step.
GetLimiterReturns(r) == rpc[r] = "locked" /\ rpc'[r] = "allow"

\* The call finds no entry for its address and inserts one.
Miss(r) == rip[r] = "new" \/ limiters.tracked = 0

\* The eviction sweep runs in the call: the insertion takes the entry count
\* above HighWater.
SweepRuns(r) == Miss(r) /\ Entries(limiters) + 1 > HighWater

\* The call removes no entry: the map is as before, with the inserted entry
\* on a miss.
NothingRemoved(r) ==
    /\ Entries(limiters') = Entries(limiters) + (IF Miss(r) THEN 1 ELSE 0)
    /\ limiters.tracked # 0 => limiters'.tracked = limiters.tracked
    /\ (rip[r] = "a" /\ limiters.tracked = 0) => limiters'.tracked = rlim'[r]

\* C20 as stated: whenever the sweep runs, the entry count when getLimiter
\* returns is under the low-water mark (5000) and greater than zero; when
\* the count is at or below the threshold no entry is removed.
C20_UnderLowWater ==
    [][\A r \in Reqs : GetLimiterReturns(r) =>
          IF SweepRuns(r)
          THEN Entries(limiters') < SweepLimit /\ Entries(limiters') > 0
          ELSE NothingRemoved(r)]_vars

\* C20 as amended: whenever the sweep runs, the entry count when getLimiter
\* returns equals the low-water mark (5000, so it is not under it); when the
\* count is at or below the threshold no entry is removed.
C20_AtLowWater ==
    [][\A r \in Reqs : GetLimiterReturns(r) =>
          IF SweepRuns(r)
          THEN Entries(limiters') = SweepLimit
          ELSE NothingRemoved(r)]_vars

\* A getLimiter call has just returned from a sweep; calls that removed
\* nothing came before it.
C20_Witness ==
    /\ Entries(limiters) = SweepLimit
    /\ \E r \in Reqs : rpc[r] = "allow"
    /\ log # <<>>

\* A header value with its port suffix stripped, if it has one.
StripPort(str) ==
    IF SplitHostPort(str).err THEN str ELSE SplitHostPort(str).host

\* The first non-empty string of a sequence of strings, or the empty
\* string.
FirstNonEmpty(ss) ==
    IF \E i \in DOMAIN ss : ss[i] # <<>>
    THEN ss[CHOOSE i \in DOMAIN ss :
                ss[i] # <<>> /\ \A j \in 1..(i - 1) : ss[j] = <<>>]
    ELSE <<>>

\* C17 as stated: getIPAddress returns the first non-empty of the
\* X-Forwarded-For value with its port stripped, the X-Real-IP value and
\* the peer address with its port stripped; and the result is non-empty
\* whenever the peer address is.
C17_ResolveIdentity ==
    ident.done =>
        /\ ident.ip = FirstNonEmpty(<<StripPort(request.forwarded),
                                      request.realIP,
                                      StripPort(request.remoteAddr)>>)
        /\ request.remoteAddr # <<>> => ident.ip # <<>>

\* Only increments have been applied to the stored count so far.
OnlyIncrements == \A i \in DOMAIN applied : applied[i] = 1

\* C21 as stated: k successful increment requests and no decrements, from
\* stored count 0: the Updates submitted to the hub carry the counts
\* 1, ..., k, each exactly once, and the stored count ends at k.  At any
\* moment the counts submitted so far are distinct values of 1..k', for the
\* k' increments applied so far, and once every handler has submitted, the
\* k counts are there.
C21_OwnValueBroadcast ==
    OnlyIncrements =>
        /\ count = Len(applied)
        /\ \A i \in DOMAIN submitted : submitted[i] \in 1..count
        /\ \A i, j \in DOMAIN submitted :
               i # j => submitted[i] # submitted[j]
        /\ (InFlight = {} /\ failed = 0) => Len(submitted) = count

\* C22 as stated: immediately after getLimiter(ip) returns, also from a
\* call that created the bucket and ran the sweep, limiters[ip] exists and
\* is the limiter returned.
C22_ReturnedLimiterTracked ==
    [][\A r \in Reqs :
          (GetLimiterReturns(r) /\ rip[r] = "a") =>
              (limiters'.tracked # 0 /\ limiters'.tracked = rlim'[r])]_vars

\* No getLimiter call is in progress.
Quiescent == \A r \in Reqs : rpc[r] \notin {"lock", "locked"}

\* C6 as stated: once getLimiter has been called for more than HighWater
\* distinct addresses, the map holds strictly fewer than HighWater entries.
C6_StrictlyBelowHighWater ==
    (calls > HighWater /\ Quiescent) => Entries(limiters) < HighWater

\* C6 as amended: ... the map holds at most HighWater entries.
C6_AtMostHighWater ==
    (calls > HighWater /\ Quiescent) => Entries(limiters) <= HighWater

\* After more than HighWater calls the map holds exactly HighWater entries.
C6_Witness ==
    calls > HighWater /\ Quiescent /\ Entries(limiters) = HighWater

\* C9 as stated: between a request's getLimiter lookup and its
\* limiter.Allow, no other request's lookup, creation or eviction step
\* occurs.
C9_OneCriticalSection ==
    [][\A r1, r2 \in Reqs :
          (r1 # r2 /\ rpc[r1] = "allow" /\ rpc[r2] = "locked")
              => rpc'[r2] = "locked"]_vars

\* C9 as amended: lookup-or-create and eviction are one critical section
\* under mu: at most one request is inside getLimiter's body, and it is the
\* holder of mu.  (Token consumption happens after mu is released.)
C9_GetLimiterExclusive ==
    /\ \A r1, r2 \in Reqs : (rpc[r1] = "locked" /\ rpc[r2] = "locked") => r1 = r2
    /\ \A r \in Reqs : rpc[r] = "locked" <=> mu = r

\* One request for "a" has its limiter and has not yet consumed, while
\* another request for "a" is inside getLimiter's body.
C9_Witness ==
    \E r1, r2 \in Reqs :
        /\ rpc[r1] = "allow" /\ rip[r1] = "a"
        /\ rpc[r2] = "locked" /\ rip[r2] = "a"

====
